---- MODULE Spec2Model ----
(***************************************************************************)
(* A model of the md_server domain entry store                             *)
(* (src/mdserver/database/database.py, class JsonDatabase and its base     *)
(* class Database): whole-file load with format detection and schema       *)
(* refresh, in-memory indices, add_or_update_entry, query, store and the   *)
(* random-probe address generator gen_ip.                                  *)
(*                                                                         *)
(* Python values are tagged tuples so that values of different Python      *)
(* types can be compared: None is <<"None">>, a string s is <<"str", s>>,  *)
(* a number n is <<"num", n>>, a dict is <<"dict", f>>.  An entry is a     *)
(* function from its keys to such values; the list db_entries is a         *)
(* sequence of entries and an index maps a value to the position of the    *)
(* entry object it refers to.                                              *)
(***************************************************************************)
EXTENDS Integers, Sequences, FiniteSets, TLC

VARIABLES
    fs,          \* the file system: path -> file content (Absent when missing)
    dbfile,      \* self.dbfile
    db_meta,     \* self.db_meta
    db_entries,  \* self.db_entries
    indices,     \* self.indices
    now,         \* the last value returned by time.time()
    call,        \* the last call made on the store, with its arguments and pre-state
    ret,         \* what the last call returned or raised
    gen,         \* the frame of a running gen_ip call
    random_state,       \* the state of the generator of the random module
    default_locations,  \* the dict that is the default of new_metadata's locations
    meta_is_default,    \* db_meta["locations"] is that default dict object
    sto,         \* the frame of a running store call
    other        \* the other process that shares the file, while it is not running

vars ==
    <<fs, dbfile, db_meta, db_entries, indices, now, call, ret, gen,
      random_state, default_locations, meta_is_default, sto, other>>

(***************************************************************************)
(* Bounds of the model.                                                    *)
(***************************************************************************)
MaxEntries == 2
MaxTime == 4
MaxTries == 5

(***************************************************************************)
(* Python values.                                                          *)
(***************************************************************************)
None == <<"None">>
Str(s) == <<"str", s>>
Num(n) == <<"num", n>>
Dict(f) == <<"dict", f>>
EmptyDict == Dict({})

Max(S) == CHOOSE m \in S : \A x \in S : x <= m
Min(S) == CHOOSE m \in S : \A x \in S : m <= x

(***************************************************************************)
(* Database.index_keys                                                     *)
(***************************************************************************)
index_keys == {"domain_name", "domain_uuid", "mds_mac", "mds_ipv4", "mds_ipv6"}

(***************************************************************************)
(* Database.new_metadata, Database.new_entry, Database.new_db              *)
(***************************************************************************)
new_metadata(locations) ==
    [initialised |-> None, updated |-> None, locations |-> locations]

new_location(hostname, version) ==
    [hostname |-> hostname, version |-> version, first_seen |-> None, last_seen |-> None]

new_entry(location, domain_name, domain_uuid, domain_metadata, mds_mac, mds_ipv4, mds_ipv6) ==
    [location |-> location,
     domain_name |-> domain_name,
     domain_uuid |-> domain_uuid,
     domain_metadata |-> domain_metadata,
     mds_mac |-> mds_mac,
     mds_ipv4 |-> mds_ipv4,
     mds_ipv6 |-> mds_ipv6,
     first_seen |-> None,
     last_update |-> None]

default_entry == new_entry(None, None, None, EmptyDict, None, None, None)

new_db(metadata, entries) == [metadata |-> metadata, entries |-> entries]

(***************************************************************************)
(* Database._check_entry: TRUE when the check passes, FALSE when it raises *)
(* ValueError.                                                             *)
(***************************************************************************)
\* the check without its second loop, the one over the keys of the entry
_check_entry_missing_only(entry) ==
    \A key \in DOMAIN default_entry : key \in DOMAIN entry

_check_entry(entry) ==
    /\ \A key \in DOMAIN default_entry : key \in DOMAIN entry
    /\ \A key \in DOMAIN entry : key \in DOMAIN default_entry

(***************************************************************************)
(* Database._reformat_entry                                                *)
(***************************************************************************)
_reformat_entry(entry) ==
    [key \in DOMAIN default_entry |->
        IF key \in DOMAIN entry THEN entry[key] ELSE default_entry[key]]

(***************************************************************************)
(* JsonDatabase._refresh_format                                            *)
(***************************************************************************)
\* the refresh that leaves out the entries that fail the check
_refresh_format_drops(entries) ==
    LET passes(e) == _check_entry(e) IN SelectSeq(entries, passes)

_refresh_format(entries) ==
    [i \in 1..Len(entries) |->
        IF _check_entry(entries[i]) THEN entries[i]
        ELSE _reformat_entry(entries[i])]

(***************************************************************************)
(* JsonDatabase._reindex: one dict per index key; the dict comprehension   *)
(* runs over db_entries in order, so the last entry holding a value is the *)
(* one the value maps to.  An index value is the position of the entry     *)
(* object in db_entries.                                                   *)
(***************************************************************************)
\* the index build in which the first entry holding a value wins
_reindex_first_wins(entries) ==
    [key \in index_keys |->
        [v \in {entries[i][key] : i \in 1..Len(entries)} \ {None} |->
            Min({i \in 1..Len(entries) : entries[i][key] = v})]]

\* the index build that misses the entry appended last
_reindex_stale(entries) ==
    [key \in index_keys |->
        [v \in {entries[i][key] : i \in 1..(Len(entries) - 1)} \ {None} |->
            Max({i \in 1..(Len(entries) - 1) : entries[i][key] = v})]]

_reindex(entries) ==
    [key \in index_keys |->
        [v \in {entries[i][key] : i \in 1..Len(entries)} \ {None} |->
            Max({i \in 1..Len(entries) : entries[i][key] = v})]]

(***************************************************************************)
(* JsonDatabase.query: the entry found, None, or ValueError.               *)
(***************************************************************************)
\* the query that lets the KeyError of a missing value out
query_raises_on_missing(idx, entries, key, needle) ==
    IF key \notin DOMAIN idx THEN [kind |-> "ValueError"]
    ELSE IF needle \in DOMAIN idx[key]
         THEN [kind |-> "entry", pos |-> idx[key][needle],
               val |-> entries[idx[key][needle]]]
         ELSE [kind |-> "KeyError"]

query(idx, entries, key, needle) ==
    IF key \notin DOMAIN idx THEN [kind |-> "ValueError"]
    ELSE IF needle \in DOMAIN idx[key]
         THEN [kind |-> "entry", pos |-> idx[key][needle],
               val |-> entries[idx[key][needle]]]
         ELSE [kind |-> "None"]

(***************************************************************************)
(* dict item assignment and deletion: d[k] = v, and d without the key k.   *)
(***************************************************************************)
set_item(d, k, v) ==
    [x \in DOMAIN d \cup {k} |-> IF x = k THEN v ELSE d[x]]

del_item(d, k) == [x \in DOMAIN d \ {k} |-> d[x]]

(***************************************************************************)
(* time.time(): the wall clock advances between two calls, so each call    *)
(* returns a later value than the one before it.                           *)
(***************************************************************************)
time_time(last) == last + 1

(***************************************************************************)
(* The file system.  A file holds a JSON document: Absent when there is no *)
(* file, <<"list", s>> for a root array, <<"dict", f>> for a root object,  *)
(* <<"str", s>> for a root string.  json.dumps writes Python's None, str,  *)
(* float, list and str-keyed dict as the JSON value of the same shape and  *)
(* json.load reads them back, so the document of a Python dict d is        *)
(* <<"dict", d>>.                                                          *)
(***************************************************************************)
Absent == <<"absent">>
DbPath == "db.json"
AltPath == "alt.json"
Paths == {DbPath, AltPath, "db.json.tmp", "alt.json.tmp"}

\* the temporary file that is the target itself
tmpfile_in_place(path) == path

tmpfile(path) == IF path = DbPath THEN "db.json.tmp" ELSE "alt.json.tmp"

\* the content of a file that is not the whole text of one json.dumps: a
\* file just truncated, written in part, or written over by two writers
Partial == <<"partial">>

json_dumps(db) == <<"dict", db>>

EmptyLocations == <<>>

(***************************************************************************)
(* JsonDatabase._load_dbfile on the content of the file: open() raises     *)
(* FileNotFoundError for a missing file (and for the path "" that stands   *)
(* for no path), a root list is the old format, a root dict with both keys *)
(* is the current one, anything else raises DbFormatUnknown; json.load     *)
(* raises JSONDecodeError on a text that is not a whole document.  A call  *)
(* of    *)
(* new_metadata() without argument returns a dict whose "locations" is the *)
(* one dict object that is the default of the parameter.                   *)
(***************************************************************************)
\* the load that does not know the old format
_load_dbfile_no_legacy(content) ==
    IF content = Absent THEN [kind |-> "FileNotFoundError"]
    ELSE IF content = Partial THEN [kind |-> "JSONDecodeError"]
    ELSE IF content[1] = "dict"
            /\ "metadata" \in DOMAIN content[2]
            /\ "entries" \in DOMAIN content[2]
         THEN [kind |-> "ok", md |-> content[2].metadata,
               entries |-> content[2].entries, default_md |-> FALSE]
    ELSE [kind |-> "DbFormatUnknown"]

_load_dbfile(content) ==
    IF content = Absent THEN [kind |-> "FileNotFoundError"]
    ELSE IF content = Partial THEN [kind |-> "JSONDecodeError"]
    ELSE IF content[1] = "list"
         THEN [kind |-> "ok", md |-> new_metadata(default_locations),
               entries |-> content[2], default_md |-> TRUE]
    ELSE IF content[1] = "dict"
            /\ "metadata" \in DOMAIN content[2]
            /\ "entries" \in DOMAIN content[2]
         THEN [kind |-> "ok", md |-> content[2].metadata,
               entries |-> content[2].entries, default_md |-> FALSE]
    ELSE [kind |-> "DbFormatUnknown"]

(***************************************************************************)
(* The content open(dbfile) reads: dbfile None is opened as "".            *)
(***************************************************************************)
file_at(files, path) == IF path = None THEN Absent ELSE files[path[2]]

(***************************************************************************)
(* The inputs of the model: candidate entries, id fields, files.           *)
(***************************************************************************)
Names == {None, Str("a"), Str("b")}
Uuids == {None, Str("u1")}
Stamps == {None, Num(0)}

ValidCandidates ==
    {[new_entry(None, n, u, EmptyDict, None, None, None)
        EXCEPT !.first_seen = t, !.last_update = t] :
        n \in Names, u \in Uuids, t \in Stamps}

\* a candidate without "location" (the db_entry of tests.py), and one that
\* carries the key "last_seen" (a dict that went through an earlier call)
InvalidCandidates ==
    {del_item(new_entry(None, Str("a"), Str("u1"), EmptyDict, None, None, None),
              "location"),
     set_item(new_entry(None, Str("a"), Str("u1"), EmptyDict, None, None, None),
              "last_seen", Num(0))}

Candidates == ValidCandidates \cup InvalidCandidates

IdFields == {"domain_name", "domain_uuid", "location"}

\* an entry of an older schema: no location, no mds_ipv6, a dropped key
OldEntry ==
    [domain_name |-> Str("a"), domain_uuid |-> Str("u1"),
     domain_metadata |-> EmptyDict, mds_mac |-> None, mds_ipv4 |-> None,
     first_seen |-> Num(0), last_update |-> Num(0), hostname |-> Str("h")]

CurrentEntry ==
    [new_entry(Str("h"), Str("b"), None, EmptyDict, None, Str("10.0.0.1"), None)
        EXCEPT !.first_seen = Num(0), !.last_update = Num(0)]

InitFiles ==
    {Absent,
     <<"list", <<OldEntry>> >>,
     json_dumps(new_db(new_metadata(EmptyLocations), <<CurrentEntry>>))}

(***************************************************************************)
(* JsonDatabase.__init__(dbfile): the state of the new instance, or        *)
(* TypeError when the file has an unknown format; the JSONDecodeError of   *)
(* json.load is not caught.                                                *)
(***************************************************************************)
__init__(files, path) ==
    LET loaded == _load_dbfile(file_at(files, path))
        meta == IF loaded.kind = "ok" THEN loaded.md
                ELSE new_metadata(default_locations)
        raw == IF loaded.kind = "ok" THEN loaded.entries ELSE <<>>
        entries == _refresh_format(raw)
    IN  IF loaded.kind = "DbFormatUnknown" THEN [kind |-> "TypeError"]
        ELSE IF loaded.kind = "JSONDecodeError" THEN loaded
        ELSE [kind |-> "ok", dbfile |-> path, db_meta |-> meta,
              db_entries |-> entries, indices |-> _reindex(entries),
              meta_is_default |->
                  IF loaded.kind = "ok" THEN loaded.default_md ELSE TRUE]

(***************************************************************************)
(* The random module.  random.seed(None) seeds the generator from the      *)
(* operating system, after which its draws are not determined; seeded with *)
(* a number its state is a function of the seed and every draw a function  *)
(* of the state.  A linear congruential generator of full period stands    *)
(* for the generator of the library.                                       *)
(***************************************************************************)
RandMod == 16

Entropy == <<"entropy">>

random_seed(seed) ==
    IF seed = None THEN Entropy ELSE <<"seeded", seed[2] % RandMod>>

random_advance(state) ==
    IF state = Entropy THEN Entropy
    ELSE <<"seeded", (5 * state[2] + 3) % RandMod>>

\* the values random.randrange(0, n) can return in a state
randrange(state, n) ==
    IF state = Entropy THEN 0..(n - 1)
    ELSE {random_advance(state)[2] % n}

NoGen == [pc |-> "idle"]
NoSto == [pc |-> "idle", committed |-> None]
NoOther == [kind |-> "none"]

\* a process that has just started: nothing running, the default dict empty
ProcessStart ==
    /\ gen = NoGen
    /\ sto = NoSto
    /\ random_state = Entropy
    /\ default_locations = EmptyLocations

Init ==
    /\ \E content \in InitFiles :
        fs = [p \in Paths |-> IF p = DbPath THEN content ELSE Absent]
    /\ dbfile \in {None, Str(DbPath)}
    /\ ProcessStart
    /\ LET db == __init__(fs, dbfile)
       IN  /\ db_meta = db.db_meta
           /\ db_entries = db.db_entries
           /\ indices = db.indices
           /\ meta_is_default = db.meta_is_default
    /\ now = 0
    /\ call = [op |-> "__init__", path |-> dbfile]
    /\ ret = [kind |-> "None"]
    /\ other = NoOther

(***************************************************************************)
(* JsonDatabase.add_or_update_entry(entry, id_field).                      *)
(***************************************************************************)
PreState == [db_entries |-> db_entries, indices |-> indices, db_meta |-> db_meta]

Repeats(entry, id_field) ==
    /\ call.op = "add_or_update_entry"
    /\ call.outcome \in {"created", "updated"}
    /\ call.entry = entry
    /\ call.id_field = id_field

\* the merge with None taken as a value to store
merge_entry_clears(oe, entry) ==
    [key \in DOMAIN oe \cup DOMAIN entry |->
        IF key \in DOMAIN entry /\ key # "first_seen"
        THEN entry[key] ELSE oe[key]]

\* the merge without the exception for first_seen
merge_entry_first_seen(oe, entry) ==
    [key \in DOMAIN oe \cup {k \in DOMAIN entry : entry[k] # None} |->
        IF key \in DOMAIN entry /\ entry[key] # None
        THEN entry[key] ELSE oe[key]]

merge_entry(oe, entry) ==
    [key \in DOMAIN oe \cup
             {k \in DOMAIN entry : entry[k] # None /\ k # "first_seen"} |->
        IF key \in DOMAIN entry /\ entry[key] # None /\ key # "first_seen"
        THEN entry[key] ELSE oe[key]]

\* the upsert that merges into every entry that holds the id value
add_or_update_entry_all_holders(entry, id_field) ==
    /\ gen.pc = "idle" /\ sto.pc = "idle"
    /\ IF id_field \notin index_keys
       THEN /\ call' = [op |-> "add_or_update_entry", entry |-> entry,
                        id_field |-> id_field, outcome |-> "bad_id_field",
                        pre |-> PreState, repeat |-> FALSE, arg |-> entry]
            /\ ret' = [kind |-> "ValueError"]
            /\ UNCHANGED <<db_entries, indices, now>>
       ELSE IF ~_check_entry(entry)
       THEN /\ call' = [op |-> "add_or_update_entry", entry |-> entry,
                        id_field |-> id_field, outcome |-> "bad_entry",
                        pre |-> PreState, repeat |-> FALSE, arg |-> entry]
            /\ ret' = [kind |-> "ValueError"]
            /\ UNCHANGED <<db_entries, indices, now>>
       ELSE IF entry[id_field] \in DOMAIN indices[id_field]
       THEN LET pos == indices[id_field][entry[id_field]]
                oe == merge_entry(db_entries[pos], entry)
                updated ==
                    [i \in DOMAIN db_entries |->
                        IF db_entries[i][id_field] = entry[id_field]
                        THEN merge_entry(db_entries[i], entry)
                        ELSE db_entries[i]]
                t1 == time_time(now)
            IN  /\ t1 <= MaxTime
                /\ db_entries' = updated
                /\ indices' = _reindex(updated)
                /\ now' = t1
                /\ call' = [op |-> "add_or_update_entry", entry |-> entry,
                            id_field |-> id_field, outcome |-> "updated",
                            pos |-> pos, pre |-> PreState,
                            repeat |-> Repeats(entry, id_field),
                            arg |-> set_item(entry, "last_seen", Num(t1))]
                /\ ret' = query(_reindex(updated), updated, id_field,
                                entry[id_field])
       ELSE LET t1 == time_time(now)
                t2 == time_time(t1)
                e1 == set_item(entry, "first_seen", Num(t1))
                e2 == set_item(e1, "last_seen", Num(t2))
                appended == Append(db_entries, e2)
            IN  /\ Len(db_entries) < MaxEntries
                /\ t2 <= MaxTime
                /\ db_entries' = appended
                /\ indices' = _reindex(appended)
                /\ now' = t2
                /\ call' = [op |-> "add_or_update_entry", entry |-> entry,
                            id_field |-> id_field, outcome |-> "created",
                            pos |-> Len(appended), pre |-> PreState,
                            repeat |-> Repeats(entry, id_field),
                            arg |-> e2]
                /\ ret' = query(_reindex(appended), appended, id_field,
                                entry[id_field])
    /\ UNCHANGED <<fs, dbfile, db_meta, gen, random_state, default_locations,
                   meta_is_default, sto, other>>

add_or_update_entry(entry, id_field) ==
    /\ gen.pc = "idle" /\ sto.pc = "idle"
    /\ IF id_field \notin index_keys
       THEN /\ call' = [op |-> "add_or_update_entry", entry |-> entry,
                        id_field |-> id_field, outcome |-> "bad_id_field",
                        pre |-> PreState, repeat |-> FALSE, arg |-> entry]
            /\ ret' = [kind |-> "ValueError"]
            /\ UNCHANGED <<db_entries, indices, now>>
       ELSE IF ~_check_entry(entry)
       THEN /\ call' = [op |-> "add_or_update_entry", entry |-> entry,
                        id_field |-> id_field, outcome |-> "bad_entry",
                        pre |-> PreState, repeat |-> FALSE, arg |-> entry]
            /\ ret' = [kind |-> "ValueError"]
            /\ UNCHANGED <<db_entries, indices, now>>
       ELSE IF entry[id_field] \in DOMAIN indices[id_field]
       THEN LET pos == indices[id_field][entry[id_field]]
                oe == merge_entry(db_entries[pos], entry)
                updated == [db_entries EXCEPT ![pos] = oe]
                t1 == time_time(now)
            IN  /\ t1 <= MaxTime
                /\ db_entries' = updated
                /\ indices' = _reindex(updated)
                /\ now' = t1
                /\ call' = [op |-> "add_or_update_entry", entry |-> entry,
                            id_field |-> id_field, outcome |-> "updated",
                            pos |-> pos, pre |-> PreState,
                            repeat |-> Repeats(entry, id_field),
                            arg |-> set_item(entry, "last_seen", Num(t1))]
                /\ ret' = query(_reindex(updated), updated, id_field,
                                entry[id_field])
       ELSE LET t1 == time_time(now)
                t2 == time_time(t1)
                e1 == set_item(entry, "first_seen", Num(t1))
                e2 == set_item(e1, "last_seen", Num(t2))
                appended == Append(db_entries, e2)
            IN  /\ Len(db_entries) < MaxEntries
                /\ t2 <= MaxTime
                /\ db_entries' = appended
                /\ indices' = _reindex(appended)
                /\ now' = t2
                /\ call' = [op |-> "add_or_update_entry", entry |-> entry,
                            id_field |-> id_field, outcome |-> "created",
                            pos |-> Len(appended), pre |-> PreState,
                            repeat |-> Repeats(entry, id_field),
                            arg |-> e2]
                /\ ret' = query(_reindex(appended), appended, id_field,
                                entry[id_field])
    /\ UNCHANGED <<fs, dbfile, db_meta, gen, random_state, default_locations,
                   meta_is_default, sto, other>>

Upsert ==
    \E entry \in Candidates, id_field \in IdFields :
        add_or_update_entry(entry, id_field)

(***************************************************************************)
(* JsonDatabase.store(dbfile): the text is written to the temporary file,  *)
(* which is then renamed over the target.                                  *)
(***************************************************************************)
\* the store that returns at once whenever the instance has no file
store_transient_returns(path) ==
    /\ gen.pc = "idle" /\ sto.pc = "idle"
    /\ LET target == IF dbfile = None THEN None
                     ELSE IF path = None THEN dbfile ELSE path
       IN  IF target = None
           THEN /\ fs' = fs
                /\ call' = [op |-> "store", path |-> path, wrote |-> FALSE,
                            target |-> target, pre |-> PreState,
                            pre_fs |-> fs]
           ELSE LET dbtext == json_dumps(new_db(db_meta, db_entries))
                    written == [fs EXCEPT ![tmpfile(target[2])] = dbtext]
                    renamed == [written EXCEPT ![target[2]] = dbtext,
                                               ![tmpfile(target[2])] = Absent]
                IN  /\ fs' = renamed
                    /\ call' = [op |-> "store", path |-> path, wrote |-> TRUE,
                                target |-> target, pre |-> PreState,
                            pre_fs |-> fs]
    /\ ret' = [kind |-> "None"]
    /\ UNCHANGED <<dbfile, db_meta, db_entries, indices, now, gen,
                   random_state, default_locations, meta_is_default, sto, other>>

store(path) ==
    /\ gen.pc = "idle" /\ sto.pc = "idle"
    /\ LET target == IF path = None THEN dbfile ELSE path
       IN  IF target = None
           THEN /\ fs' = fs
                /\ call' = [op |-> "store", path |-> path, wrote |-> FALSE,
                            target |-> target, pre |-> PreState,
                            pre_fs |-> fs]
           ELSE LET dbtext == json_dumps(new_db(db_meta, db_entries))
                    written == [fs EXCEPT ![tmpfile(target[2])] = dbtext]
                    renamed == [written EXCEPT ![target[2]] = dbtext,
                                               ![tmpfile(target[2])] = Absent]
                IN  /\ fs' = renamed
                    /\ call' = [op |-> "store", path |-> path, wrote |-> TRUE,
                                target |-> target, pre |-> PreState,
                            pre_fs |-> fs]
    /\ ret' = [kind |-> "None"]
    /\ UNCHANGED <<dbfile, db_meta, db_entries, indices, now, gen,
                   random_state, default_locations, meta_is_default, sto, other>>

Store == \E path \in {None} : store(path)

(***************************************************************************)
(* store step by step.  The frame sto of a running call holds the target,  *)
(* the text, the content of the target when the call began, the path the   *)
(* file behind the open handle is now at (a rename by the other process    *)
(* moves it) and clean: the other process has not opened, written or       *)
(* renamed this call's temporary file.  The frame of a process that is not *)
(* in store keeps in committed the text its last store renamed into place. *)
(* Two writers into one file leave the text of one of them or a mix.       *)
(***************************************************************************)
Unlinked == "(unlinked)"

\* another process has opened or written the file at path
other_touched(path) ==
    IF other.kind = "proc" /\ other.sto.pc # "idle"
       /\ (other.sto.handle = path \/ tmpfile(other.sto.target) = path)
    THEN [other EXCEPT !.sto.clean = FALSE]
    ELSE other

\* another process has renamed the file at tmp to target
other_renamed(tmp, target) ==
    IF other.kind = "proc" /\ other.sto.pc # "idle"
    THEN [other EXCEPT
            !.sto.clean = IF tmpfile(other.sto.target) = tmp THEN FALSE ELSE @,
            !.sto.handle = IF @ = tmp THEN target
                           ELSE IF @ = target THEN Unlinked ELSE @]
    ELSE other

store_call(path, target, outcome, before, dbtext, clean) ==
    [op |-> "store", path |-> path, wrote |-> outcome = "ok",
     target |-> target, pre |-> PreState, outcome |-> outcome,
     before |-> before, dbtext |-> dbtext, clean |-> clean]

\* the call that writes the entries alone, as the list of the old format
store_open_entries_only(path) ==
    /\ gen.pc = "idle" /\ sto.pc = "idle"
    /\ LET target == IF path = None THEN dbfile ELSE path
       IN  IF target = None
           THEN /\ UNCHANGED <<fs, sto, other>>
                /\ call' = store_call(path, target, "noop", None, None, TRUE)
                /\ ret' = [kind |-> "None"]
           ELSE LET dbtext == <<"list", db_entries>>
                    tmp == tmpfile(target[2])
                IN  /\ fs' = [fs EXCEPT ![tmp] = Partial]
                    /\ sto' = [pc |-> "opened", target |-> target[2],
                               dbtext |-> dbtext, before |-> fs[target[2]],
                               handle |-> tmp, clean |-> TRUE, path |-> path,
                               committed |-> sto.committed]
                    /\ other' = other_touched(tmp)
                    /\ call' = store_call(path, target, "running",
                                          fs[target[2]], dbtext, TRUE)
                    /\ ret' = [kind |-> "running"]
    /\ UNCHANGED <<dbfile, db_meta, db_entries, indices, now, gen,
                   random_state, default_locations, meta_is_default>>

\* lines 410-418: the text is made and the temporary file opened for writing
store_open(path) ==
    /\ gen.pc = "idle" /\ sto.pc = "idle"
    /\ LET target == IF path = None THEN dbfile ELSE path
       IN  IF target = None
           THEN /\ UNCHANGED <<fs, sto, other>>
                /\ call' = store_call(path, target, "noop", None, None, TRUE)
                /\ ret' = [kind |-> "None"]
           ELSE LET dbtext == json_dumps(new_db(db_meta, db_entries))
                    tmp == tmpfile(target[2])
                IN  /\ fs' = [fs EXCEPT ![tmp] = Partial]
                    /\ sto' = [pc |-> "opened", target |-> target[2],
                               dbtext |-> dbtext, before |-> fs[target[2]],
                               handle |-> tmp, clean |-> TRUE, path |-> path,
                               committed |-> sto.committed]
                    /\ other' = other_touched(tmp)
                    /\ call' = store_call(path, target, "running",
                                          fs[target[2]], dbtext, TRUE)
                    /\ ret' = [kind |-> "running"]
    /\ UNCHANGED <<dbfile, db_meta, db_entries, indices, now, gen,
                   random_state, default_locations, meta_is_default>>

\* line 419 and the end of the with block: the text is written and the file
\* closed; mixed says whether two writers into the file leave a mix
store_write(mixed) ==
    /\ sto.pc = "opened"
    /\ mixed => ~sto.clean
    /\ fs' = IF sto.handle = Unlinked THEN fs
             ELSE [fs EXCEPT ![sto.handle] =
                                IF mixed THEN Partial ELSE sto.dbtext]
    /\ sto' = [sto EXCEPT !.pc = "written"]
    /\ other' = other_touched(sto.handle)
    /\ UNCHANGED <<dbfile, db_meta, db_entries, indices, now, gen, call, ret,
                   random_state, default_locations, meta_is_default>>

\* the write raises OSError or the process stops: the call ends with the
\* temporary file as it is
store_fails ==
    /\ sto.pc \in {"opened", "written"}
    /\ sto' = [pc |-> "idle", committed |-> sto.committed]
    /\ call' = store_call(sto.path, Str(sto.target), "OSError", sto.before,
                          sto.dbtext, sto.clean)
    /\ ret' = [kind |-> "OSError"]
    /\ UNCHANGED <<fs, dbfile, db_meta, db_entries, indices, now, gen,
                   random_state, default_locations, meta_is_default, other>>

\* line 420: os.rename(tmpfile, dbfile)
store_rename ==
    /\ sto.pc = "written"
    /\ LET tmp == tmpfile(sto.target)
       IN  IF fs[tmp] = Absent
           THEN /\ UNCHANGED <<fs, other>>
                /\ sto' = [pc |-> "idle", committed |-> sto.committed]
                /\ call' = store_call(sto.path, Str(sto.target),
                                      "FileNotFoundError", sto.before,
                                      sto.dbtext, sto.clean)
                /\ ret' = [kind |-> "FileNotFoundError"]
           ELSE /\ fs' = [fs EXCEPT ![sto.target] = fs[tmp], ![tmp] = Absent]
                /\ other' = other_renamed(tmp, sto.target)
                /\ sto' = [pc |-> "idle", committed |-> sto.dbtext]
                /\ call' = store_call(sto.path, Str(sto.target), "ok",
                                      sto.before, sto.dbtext, sto.clean)
                /\ ret' = [kind |-> "None"]
    /\ UNCHANGED <<dbfile, db_meta, db_entries, indices, now, gen,
                   random_state, default_locations, meta_is_default>>

StoreOpen == \E path \in {None} : store_open(path)

StoreWrite == \E mixed \in BOOLEAN : store_write(mixed)

StoreFails == store_fails

StoreRename == store_rename

(***************************************************************************)
(* A new JsonDatabase(path) takes the place of the current instance; when  *)
(* the constructor raises an exception the current instance stays.         *)
(***************************************************************************)
Load(path) ==
    /\ gen.pc = "idle" /\ sto.pc = "idle"
    /\ LET db == __init__(fs, path)
       IN  IF db.kind = "ok"
           THEN /\ dbfile' = db.dbfile
                /\ db_meta' = db.db_meta
                /\ db_entries' = db.db_entries
                /\ indices' = db.indices
                /\ meta_is_default' = db.meta_is_default
                /\ ret' = [kind |-> "None"]
                /\ call' = [op |-> "load", path |-> path, outcome |-> "ok",
                            pre |-> PreState,
                            after_store |-> /\ call.op = "store"
                                            /\ call.wrote
                                            /\ call.target = path]
           ELSE /\ UNCHANGED <<dbfile, db_meta, db_entries, indices,
                               meta_is_default>>
                /\ ret' = [kind |-> db.kind]
                /\ call' = [op |-> "load", path |-> path,
                            outcome |-> db.kind, pre |-> PreState,
                            after_store |-> FALSE]
    /\ UNCHANGED <<fs, now, gen, random_state, default_locations, sto, other>>

Construct == \E path \in {Str(DbPath)} : Load(path)

(***************************************************************************)
(* IP addresses.  The address space of each family is AddrBits wide, an    *)
(* address is its family and its number, and str(address) is its text.     *)
(* ipaddress.ip_network(network/prefix) is the network of that base and    *)
(* prefix length; it has 2^(AddrBits - prefix) addresses, the first is the *)
(* network address and the last the broadcast address.                     *)
(***************************************************************************)
AddrBits == 3

str_address(version, n) == Str(<<"ip", version, n>>)

ip_network(network, prefix) ==
    [version |-> network[2][2],
     network_address |-> network[2][3],
     num_addresses |-> 2 ^ (AddrBits - prefix)]

broadcast_address(net) == net.network_address + net.num_addresses - 1

\* the text of the addresses of a network, and of the addresses a call of
\* gen_ip (c is its record in call) starts out with as taken
subnet_addresses(net) ==
    {str_address(net.version, net.network_address + k) :
        k \in 0..(net.num_addresses - 1)}

unavailable(c) ==
    (DOMAIN indices[c.ipvkey] \cup c.exclude)
      \cup {str_address(c.net.version, c.net.network_address),
            str_address(c.net.version, broadcast_address(c.net))}

\* str() of a full-width address: the four octets of an IPv4Address and the
\* last two groups of an IPv6Address
ipv4_number(a, b, c, d) == ((a * 256 + b) * 256 + c) * 256 + d

ipv4_text(n) == <<n \div 16777216, (n \div 65536) % 256, (n \div 256) % 256, n % 256>>

ipv6_low_groups(n) == <<(n \div 65536) % 65536, n % 65536>>

\* the version_keys that name the other family's field
version_keys_swapped == [v \in {4, 6} |-> IF v = 4 THEN "mds_ipv6" ELSE "mds_ipv4"]

version_keys == [v \in {4, 6} |-> IF v = 4 THEN "mds_ipv4" ELSE "mds_ipv6"]

(***************************************************************************)
(* Database.gen_ip(network, prefix, seed, exclude).  The call seeds the    *)
(* generator and builds allocated_map (its keys are modelled), then runs   *)
(* the while loop: each iteration draws an offset from random.randrange.   *)
(* call keeps the last offset drawn, the draws of a seeded run, and in     *)
(* prev the draws and the result of the call before when that call had the *)
(* same arguments.                                                         *)
(***************************************************************************)
NoPrev == [kind |-> "none"]

gen_ip_frame(net, seed, exclude, allocated_map) ==
    /\ gen' = [pc |-> "while", net |-> net,
               allocated_map |-> allocated_map, tries |-> 0]
    /\ call' = [op |-> "gen_ip", net |-> net, seed |-> seed,
                exclude |-> exclude, ipvkey |-> version_keys[net.version],
                offset |-> None, draws |-> <<>>,
                prev |-> IF /\ call.op = "gen_ip"
                            /\ call.net = net
                            /\ call.seed = seed
                            /\ call.exclude = exclude
                         THEN [kind |-> "run", draws |-> call.draws,
                               ret |-> ret]
                         ELSE NoPrev]
    /\ ret' = [kind |-> "running"]
    /\ UNCHANGED <<fs, dbfile, db_meta, db_entries, indices, now,
                   default_locations, meta_is_default, sto, other>>

\* the call that leaves the exclude list out of allocated_map
gen_ip_call_no_exclude(network, prefix, seed, exclude) ==
    /\ gen.pc = "idle" /\ sto.pc = "idle"
    /\ random_state' = random_seed(seed)
    /\ LET net == ip_network(network, prefix)
           ipvkey == version_keys[net.version]
           allocated_map ==
               DOMAIN indices[ipvkey]
                 \cup {str_address(net.version, net.network_address)}
                 \cup {str_address(net.version, broadcast_address(net))}
       IN  gen_ip_frame(net, seed, exclude, allocated_map)

\* the call that leaves the network and broadcast addresses out of it
gen_ip_call_no_reserved(network, prefix, seed, exclude) ==
    /\ gen.pc = "idle" /\ sto.pc = "idle"
    /\ random_state' = random_seed(seed)
    /\ LET net == ip_network(network, prefix)
           ipvkey == version_keys[net.version]
           allocated_map == DOMAIN indices[ipvkey] \cup exclude
       IN  gen_ip_frame(net, seed, exclude, allocated_map)

\* the call that does not seed the generator
gen_ip_call_no_seed(network, prefix, seed, exclude) ==
    /\ gen.pc = "idle" /\ sto.pc = "idle"
    /\ UNCHANGED random_state
    /\ LET net == ip_network(network, prefix)
           ipvkey == version_keys[net.version]
           allocated_map ==
               (DOMAIN indices[ipvkey] \cup exclude)
                 \cup {str_address(net.version, net.network_address)}
                 \cup {str_address(net.version, broadcast_address(net))}
       IN  gen_ip_frame(net, seed, exclude, allocated_map)

gen_ip_call(network, prefix, seed, exclude) ==
    /\ gen.pc = "idle" /\ sto.pc = "idle"
    /\ random_state' = random_seed(seed)
    /\ LET net == ip_network(network, prefix)
           ipvkey == version_keys[net.version]
           from_index == DOMAIN indices[ipvkey]
           with_exclude == from_index \cup exclude
           allocated_map ==
               with_exclude
                 \cup {str_address(net.version, net.network_address)}
                 \cup {str_address(net.version, broadcast_address(net))}
       IN  gen_ip_frame(net, seed, exclude, allocated_map)

gen_ip_drawn(offset) ==
    /\ random_state' = random_advance(random_state)
    /\ call' = [call EXCEPT
                   !.offset = Num(offset),
                   !.draws = IF random_state = Entropy THEN @
                             ELSE Append(@, offset)]
    /\ UNCHANGED <<fs, dbfile, db_meta, db_entries, indices, now,
                   default_locations, meta_is_default, sto, other>>

\* the iteration whose test against the database is inverted
gen_ip_iteration_inverted(offset) ==
    /\ gen.pc = "while"
    /\ Cardinality(gen.allocated_map) < gen.net.num_addresses
    /\ offset \in randrange(random_state, gen.net.num_addresses)
    /\ LET version == gen.net.version
           address == gen.net.network_address + offset
       IN  IF str_address(version, address) \in gen.allocated_map
           THEN /\ gen.tries < MaxTries
                /\ gen' = [gen EXCEPT !.tries = @ + 1]
                /\ UNCHANGED ret
           ELSE IF query(indices, db_entries, version_keys[version],
                         str_address(version, address)).kind # "entry"
           THEN /\ gen.tries < MaxTries
                /\ gen' = [gen EXCEPT
                              !.allocated_map =
                                  @ \cup {str_address(version, address)},
                              !.tries = @ + 1]
                /\ UNCHANGED ret
           ELSE /\ gen' = NoGen
                /\ ret' = [kind |-> "str",
                           val |-> str_address(version, address)]
    /\ gen_ip_drawn(offset)

\* the iteration that returns the address after the one drawn
gen_ip_iteration_off_by_one(offset) ==
    /\ gen.pc = "while"
    /\ Cardinality(gen.allocated_map) < gen.net.num_addresses
    /\ offset \in randrange(random_state, gen.net.num_addresses)
    /\ LET version == gen.net.version
           address == gen.net.network_address + offset
       IN  IF str_address(version, address) \in gen.allocated_map
           THEN /\ gen.tries < MaxTries
                /\ gen' = [gen EXCEPT !.tries = @ + 1]
                /\ UNCHANGED ret
           ELSE IF query(indices, db_entries, version_keys[version],
                         str_address(version, address)).kind = "entry"
           THEN /\ gen.tries < MaxTries
                /\ gen' = [gen EXCEPT
                              !.allocated_map =
                                  @ \cup {str_address(version, address)},
                              !.tries = @ + 1]
                /\ UNCHANGED ret
           ELSE /\ gen' = NoGen
                /\ ret' = [kind |-> "str",
                           val |-> str_address(version, address + 1)]
    /\ gen_ip_drawn(offset)

gen_ip_iteration(offset) ==
    /\ gen.pc = "while"
    /\ Cardinality(gen.allocated_map) < gen.net.num_addresses
    /\ offset \in randrange(random_state, gen.net.num_addresses)
    /\ LET version == gen.net.version
           address == gen.net.network_address + offset
       IN  IF str_address(version, address) \in gen.allocated_map
           THEN /\ gen.tries < MaxTries
                /\ gen' = [gen EXCEPT !.tries = @ + 1]
                /\ UNCHANGED ret
           ELSE IF query(indices, db_entries, version_keys[version],
                         str_address(version, address)).kind = "entry"
           THEN /\ gen.tries < MaxTries
                /\ gen' = [gen EXCEPT
                              !.allocated_map =
                                  @ \cup {str_address(version, address)},
                              !.tries = @ + 1]
                /\ UNCHANGED ret
           ELSE /\ gen' = NoGen
                /\ ret' = [kind |-> "str",
                           val |-> str_address(version, address)]
    /\ gen_ip_drawn(offset)

gen_ip_exhausted ==
    /\ gen.pc = "while"
    /\ ~(Cardinality(gen.allocated_map) < gen.net.num_addresses)
    /\ gen' = NoGen
    /\ ret' = [kind |-> "None"]
    /\ UNCHANGED <<fs, dbfile, db_meta, db_entries, indices, now, call,
                   random_state, default_locations, meta_is_default, sto,
                   other>>

\* the stores, networks and exclude lists gen_ip is run on
AddrEntry(name, ipv4, ipv6) ==
    [new_entry(None, Str(name), None, EmptyDict, None, ipv4, ipv6)
        EXCEPT !.first_seen = Num(0), !.last_update = Num(0)]

E41 == AddrEntry("vm1", str_address(4, 1), None)
E42 == AddrEntry("vm2", str_address(4, 2), str_address(6, 1))
E45 == AddrEntry("vm5", str_address(4, 5), None)
E62 == AddrEntry("vm6", None, str_address(6, 2))

AllocStores ==
    {<<>>, <<E41>>, <<E42>>, <<E45>>, <<E41, E42>>, <<E41, E45>>, <<E62>>,
     <<E42, E62>>, <<E41, E42, E45>>}

Networks ==
    {<<str_address(4, 0), 1>>, <<str_address(4, 4), 2>>,
     <<str_address(6, 0), 1>>, <<str_address(4, 0), 0>>,
     <<str_address(4, 4), 1>>}

ExcludeLists ==
    SUBSET {str_address(4, 1), str_address(4, 6), str_address(6, 2)}

Seeds == {None, Num(1), Num(6)}

GenIpCall ==
    \E n \in Networks, seed \in Seeds, exclude \in ExcludeLists :
        gen_ip_call(n[1], n[2], seed, exclude)

GenIpIteration ==
    \E offset \in 0..(2 ^ AddrBits - 1) : gen_ip_iteration(offset)

GenIpExhausted == gen_ip_exhausted

InitAlloc ==
    /\ \E entries \in AllocStores :
        fs = [p \in Paths |->
                IF p = DbPath
                THEN json_dumps(new_db(new_metadata(EmptyLocations), entries))
                ELSE Absent]
    /\ dbfile = Str(DbPath)
    /\ ProcessStart
    /\ LET db == __init__(fs, dbfile)
       IN  /\ db_meta = db.db_meta
           /\ db_entries = db.db_entries
           /\ indices = db.indices
           /\ meta_is_default = db.meta_is_default
    /\ now = 0
    /\ call = [op |-> "__init__", path |-> dbfile]
    /\ ret = [kind |-> "None"]
    /\ other = NoOther

NextAlloc == GenIpCall \/ GenIpIteration \/ GenIpExhausted

SpecAlloc == InitAlloc /\ [][NextAlloc]_vars

(***************************************************************************)
(* The caller of gen_ip: it asks for an address and writes the one it got  *)
(* into the entry of a domain with add_or_update_entry, in the field of    *)
(* the address's family.                                                   *)
(***************************************************************************)
AssignNames == {Str("vm1"), Str("vm7")}

AssignStores == {<<>>, <<E41>>, <<E42, E62>>}

\* the subnets of four addresses at the bottom of each family
AssignNetworks ==
    {<<str_address(4, 0), AddrBits - 2>>, <<str_address(6, 0), AddrBits - 2>>}

\* the field the caller keeps an address of a family in
assigned_field(version) == IF version = 4 THEN "mds_ipv4" ELSE "mds_ipv6"

assigned_entry(name, ipvkey, address, t) ==
    [AddrEntry("", None, None) EXCEPT
        !.domain_name = name, ![ipvkey] = address,
        !.first_seen = Num(t), !.last_update = Num(t)]

AssignUpsert ==
    \E name \in AssignNames :
        /\ call.op = "gen_ip" /\ gen.pc = "idle" /\ ret.kind = "str"
        /\ add_or_update_entry(
               assigned_entry(name, assigned_field(call.net.version), ret.val,
                              now),
               "domain_name")

GenIpCallAssign ==
    \E n \in AssignNetworks : gen_ip_call(n[1], n[2], None, {})

InitAssign ==
    /\ \E entries \in AssignStores :
        fs = [p \in Paths |->
                IF p = DbPath
                THEN json_dumps(new_db(new_metadata(EmptyLocations), entries))
                ELSE Absent]
    /\ dbfile = Str(DbPath)
    /\ ProcessStart
    /\ LET db == __init__(fs, dbfile)
       IN  /\ db_meta = db.db_meta
           /\ db_entries = db.db_entries
           /\ indices = db.indices
           /\ meta_is_default = db.meta_is_default
    /\ now = 0
    /\ call = [op |-> "__init__", path |-> dbfile]
    /\ ret = [kind |-> "None"]
    /\ other = NoOther

NextAssign ==
    GenIpCallAssign \/ GenIpIteration \/ GenIpExhausted \/ AssignUpsert

SpecAssign == InitAssign /\ [][NextAssign]_vars

(***************************************************************************)
(* One writer that stores step by step, and may fail or stop on the way.   *)
(***************************************************************************)
NamedCandidates ==
    {new_entry(None, n, None, EmptyDict, None, None, None) :
        n \in {Str("a"), Str("c")}}

UpsertNamed ==
    \E entry \in NamedCandidates : add_or_update_entry(entry, "domain_name")

NextStore ==
    \/ UpsertNamed
    \/ StoreOpen
    \/ StoreWrite
    \/ StoreFails
    \/ StoreRename
    \/ Construct

SpecStore == Init /\ [][NextStore]_vars

(***************************************************************************)
(* JsonDatabase.add_or_update_location(name, location).  A known name has  *)
(* its location updated from the values that are not None, first_seen      *)
(* apart; a new name is stamped and put into db_meta["locations"], which   *)
(* is the default dict of new_metadata when the metadata was made without  *)
(* argument, so that every later new_metadata() sees the change.           *)
(***************************************************************************)
merge_location(oe, location) ==
    LET copied == {key \in DOMAIN location :
                      location[key] # None /\ key # "first_seen"}
    IN  [key \in DOMAIN oe \cup copied |->
            IF key \in copied THEN location[key] ELSE oe[key]]

add_or_update_location(name, location) ==
    /\ gen.pc = "idle" /\ sto.pc = "idle"
    /\ LET locations == db_meta.locations
           t1 == time_time(now)
           t2 == time_time(t1)
           known == name \in DOMAIN locations
           stamped == set_item(set_item(location, "first_seen", Num(t1)),
                               "last_seen", Num(t2))
           changed == IF known
                      THEN set_item(locations, name,
                                    merge_location(locations[name], location))
                      ELSE set_item(locations, name, stamped)
       IN  /\ ~known => t2 <= MaxTime
           /\ db_meta' = [db_meta EXCEPT !.locations = changed]
           /\ default_locations' =
                  IF meta_is_default THEN changed ELSE default_locations
           /\ now' = IF known THEN now ELSE t2
           /\ call' = [op |-> "add_or_update_location", name |-> name,
                       location |-> location, known |-> known,
                       pre |-> PreState]
    /\ ret' = [kind |-> "None"]
    /\ UNCHANGED <<fs, dbfile, db_entries, indices, gen, random_state,
                   meta_is_default, sto, other>>

(***************************************************************************)
(* A process that starts with an instance in memory, registers locations   *)
(* and constructs instances on files of every shape.                       *)
(***************************************************************************)
LocationNames == {"h1"}

\* locations as new_location makes them, one without "version" and one
\* with a key that new_location does not know
Locations ==
    {new_location(Str("h1"), v) : v \in {None, Str("v1")}}
      \cup {del_item(new_location(Str("h1"), None), "version"),
            set_item(new_location(Str("h1"), None), "site", Str("s"))}

AddLocation ==
    \E name \in LocationNames, location \in Locations :
        add_or_update_location(name, location)

\* a root object without "entries", one without "metadata", a root string
\* and a root number
UnknownFiles ==
    {<<"dict", [metadata |-> new_metadata(EmptyLocations)]>>,
     <<"dict", [entries |-> <<CurrentEntry>>]>>,
     <<"str", "x">>,
     <<"num", 1>>}

LoadFiles ==
    (InitFiles \cup UnknownFiles)
      \cup {<<"list", <<E41, E42>> >>, <<"list", <<OldEntry, CurrentEntry>> >>}

InitLoad ==
    /\ fs \in {[p \in Paths |-> IF p = DbPath THEN c ELSE Absent] :
                  c \in LoadFiles}
    /\ dbfile = None
    /\ ProcessStart
    /\ LET db == __init__(fs, dbfile)
       IN  /\ db_meta = db.db_meta
           /\ db_entries = db.db_entries
           /\ indices = db.indices
           /\ meta_is_default = db.meta_is_default
    /\ now = 0
    /\ call = [op |-> "__init__", path |-> dbfile]
    /\ ret = [kind |-> "None"]
    /\ other = NoOther

ConstructAny == \E path \in {None, Str(DbPath), Str(AltPath)} : Load(path)

NextLoad == AddLocation \/ ConstructAny \/ UpsertNamed

SpecLoad == InitLoad /\ [][NextLoad]_vars

(***************************************************************************)
(* Two processes on one file.  Each has its own instance, built from the   *)
(* file; one of them runs while the other is kept in other, and Switch     *)
(* lets the other one run, between any two steps of a store.               *)
(***************************************************************************)
Switch ==
    /\ other.kind = "proc"
    /\ gen.pc = "idle"
    /\ other' = [kind |-> "proc", self |-> 3 - other.self,
                 dbfile |-> dbfile, db_meta |-> db_meta,
                 db_entries |-> db_entries, indices |-> indices,
                 meta_is_default |-> meta_is_default,
                 default_locations |-> default_locations,
                 random_state |-> random_state, sto |-> sto]
    /\ dbfile' = other.dbfile
    /\ db_meta' = other.db_meta
    /\ db_entries' = other.db_entries
    /\ indices' = other.indices
    /\ meta_is_default' = other.meta_is_default
    /\ default_locations' = other.default_locations
    /\ random_state' = other.random_state
    /\ sto' = other.sto
    /\ UNCHANGED <<fs, now, call, ret, gen>>

SharedFiles ==
    {Absent, json_dumps(new_db(new_metadata(EmptyLocations), <<CurrentEntry>>))}

InitShared ==
    /\ fs \in {[p \in Paths |-> IF p = DbPath THEN c ELSE Absent] :
                  c \in SharedFiles}
    /\ dbfile = Str(DbPath)
    /\ ProcessStart
    /\ LET db == __init__(fs, dbfile)
       IN  /\ db_meta = db.db_meta
           /\ db_entries = db.db_entries
           /\ indices = db.indices
           /\ meta_is_default = db.meta_is_default
           /\ other = [kind |-> "proc", self |-> 2,
                       dbfile |-> dbfile, db_meta |-> db.db_meta,
                       db_entries |-> db.db_entries, indices |-> db.indices,
                       meta_is_default |-> db.meta_is_default,
                       default_locations |-> EmptyLocations,
                       random_state |-> Entropy, sto |-> NoSto]
    /\ now = 0
    /\ call = [op |-> "__init__", path |-> dbfile]
    /\ ret = [kind |-> "None"]

NextShared ==
    \/ UpsertNamed
    \/ StoreOpen
    \/ StoreWrite
    \/ StoreRename
    \/ Switch

SpecShared == InitShared /\ [][NextShared]_vars

(***************************************************************************)
(* A call of query by the user of the instance, and del_entry, whose body  *)
(* is pass.  call keeps the file system the call found.                    *)
(***************************************************************************)
query_call(key, needle) ==
    /\ gen.pc = "idle" /\ sto.pc = "idle"
    /\ ret' = query(indices, db_entries, key, needle)
    /\ call' = [op |-> "query", key |-> key, needle |-> needle,
                pre |-> PreState, pre_fs |-> fs]
    /\ UNCHANGED <<fs, dbfile, db_meta, db_entries, indices, now, gen,
                   random_state, default_locations, meta_is_default, sto, other>>

\* the del_entry that takes the entry out of db_entries
del_entry_removes(entry) ==
    /\ gen.pc = "idle" /\ sto.pc = "idle"
    /\ LET differs(e) == e # entry
           kept == SelectSeq(db_entries, differs)
       IN  /\ db_entries' = kept
           /\ indices' = _reindex(kept)
    /\ ret' = [kind |-> "None"]
    /\ call' = [op |-> "del_entry", entry |-> entry, pre |-> PreState,
                pre_fs |-> fs]
    /\ UNCHANGED <<fs, dbfile, db_meta, now, gen, random_state,
                   default_locations, meta_is_default, sto, other>>

del_entry(entry) ==
    /\ gen.pc = "idle" /\ sto.pc = "idle"
    /\ ret' = [kind |-> "None"]
    /\ call' = [op |-> "del_entry", entry |-> entry, pre |-> PreState,
                pre_fs |-> fs]
    /\ UNCHANGED <<fs, dbfile, db_meta, db_entries, indices, now, gen,
                   random_state, default_locations, meta_is_default, sto, other>>

QueryKeys == index_keys \cup {"location", "first_seen"}

\* the values asked for: names, and addresses under the address keys
Needles(key) ==
    IF key \in {"mds_ipv4", "mds_ipv6"}
    THEN {None, str_address(4, 1), str_address(4, 2), str_address(6, 1)}
    ELSE {None, Str("a"), Str("vm1")}

Query == \E key \in QueryKeys : \E needle \in Needles(key) : query_call(key, needle)

Delete == \E i \in DOMAIN db_entries : del_entry(db_entries[i])

AddLocationPlain ==
    add_or_update_location("h1", new_location(Str("h1"), Str("v1")))

StoreAny == \E path \in {None, Str(AltPath)} : store(path)

InitOps ==
    /\ \E entries \in AssignStores :
        fs = [p \in Paths |->
                IF p = DbPath
                THEN json_dumps(new_db(new_metadata(EmptyLocations), entries))
                ELSE Absent]
    /\ dbfile \in {None, Str(DbPath)}
    /\ ProcessStart
    /\ LET db == __init__(fs, dbfile)
       IN  /\ db_meta = db.db_meta
           /\ db_entries = db.db_entries
           /\ indices = db.indices
           /\ meta_is_default = db.meta_is_default
    /\ now = 0
    /\ call = [op |-> "__init__", path |-> dbfile]
    /\ ret = [kind |-> "None"]
    /\ other = NoOther

NextOps ==
    \/ UpsertNamed
    \/ AddLocationPlain
    \/ Query
    \/ GenIpCallAssign
    \/ GenIpIteration
    \/ GenIpExhausted
    \/ Delete
    \/ StoreAny

SpecOps == InitOps /\ [][NextOps]_vars

(***************************************************************************)
(* A store that starts empty and is only upserted into, every call with    *)
(* the id_field the run began with and a candidate whose id value is set.  *)
(***************************************************************************)
UniqueIdFields == {"domain_name", "domain_uuid"}

UniqueCandidates ==
    {[new_entry(None, n, u, EmptyDict, None, None, None)
        EXCEPT !.first_seen = t] :
        n \in Names, u \in {None, Str("u1"), Str("u2")}, t \in Stamps}

\* the clock reading when the run begins: early enough for two creations
\* and the updates after them to fit below MaxTime
UniqueStart == 0 - MaxTime

InitUnique ==
    /\ fs = [p \in Paths |-> Absent]
    /\ dbfile \in {None, Str(DbPath)}
    /\ ProcessStart
    /\ LET db == __init__(fs, dbfile)
       IN  /\ db_meta = db.db_meta
           /\ db_entries = db.db_entries
           /\ indices = db.indices
           /\ meta_is_default = db.meta_is_default
    /\ now = UniqueStart
    /\ \E id_field \in UniqueIdFields :
         call = [op |-> "__init__", path |-> dbfile, id_field |-> id_field]
    /\ ret = [kind |-> "None"]
    /\ other = NoOther

UpsertSameField ==
    \E entry \in UniqueCandidates :
        /\ entry[call.id_field] # None
        /\ add_or_update_entry(entry, call.id_field)

NextUnique == UpsertSameField

SpecUnique == InitUnique /\ [][NextUnique]_vars

Next == Upsert

Spec == Init /\ [][Next]_vars

NextPersist == Upsert \/ Store \/ Construct

SpecPersist == Init /\ [][NextPersist]_vars

(***************************************************************************)
(* The properties.  A call of add_or_update_entry that went through is one *)
(* whose outcome is "created" or "updated"; C is its candidate, E the      *)
(* entry it matched as it was before the call and R the stored entry it    *)
(* created or merged into.                                                 *)
(***************************************************************************)
Upserted ==
    call.op = "add_or_update_entry" /\ call.outcome \in {"created", "updated"}

Merged == call.op = "add_or_update_entry" /\ call.outcome = "updated"

Canonical == DOMAIN default_entry

\* C1: when a valid candidate C is upserted and an entry E with the same
\* id_field value exists, the stored entry R has, for every canonical field k
\* other than first_seen, R[k] = C[k] if C[k] is not None and R[k] = E[k]
\* otherwise, and R[first_seen] = E[first_seen].
C1_MergeCorrectness ==
    Merged =>
        LET C == call.entry
            E == call.pre.db_entries[call.pos]
            R == db_entries[call.pos]
        IN  /\ E[call.id_field] = C[call.id_field]
            /\ \A k \in Canonical \ {"first_seen"} :
                   R[k] = IF C[k] # None THEN C[k] ELSE E[k]
            /\ R["first_seen"] = E["first_seen"]

C1_Witness ==
    /\ Merged
    /\ LET C == call.entry
           E == call.pre.db_entries[call.pos]
       IN  /\ C["domain_uuid"] = None /\ E["domain_uuid"] # None
           /\ C["last_update"] # None /\ C["last_update"] # E["last_update"]
           /\ C["first_seen"] # None /\ C["first_seen"] # E["first_seen"]

\* C2: over any sequence of upserts the first_seen of a stored entry stays the
\* value its creating upsert recorded, whatever first_seen the later
\* candidates carry: no step changes the first_seen of an entry that exists,
\* and a creating upsert records the time of the call.
C2_FirstSeenImmutable ==
    [][/\ \A i \in 1..Len(db_entries) :
            /\ i <= Len(db_entries')
            /\ db_entries'[i]["first_seen"] = db_entries[i]["first_seen"]
       /\ (call'.op = "add_or_update_entry" /\ call'.outcome = "created")
            => db_entries'[call'.pos]["first_seen"] = Num(time_time(now))]_vars

C2_Witness ==
    /\ Merged
    /\ call.entry["first_seen"] # None
    /\ db_entries[call.pos]["first_seen"] # call.entry["first_seen"]
    /\ db_entries[call.pos]["first_seen"][2] >= 1

\* C3 (as claimed): after every successful upsert, creating or updating, the
\* stored entry's last_update is the time of that upsert, and on creation
\* first_seen = last_update.
C3_LastUpdateIsNow ==
    Upserted =>
        /\ db_entries[call.pos]["last_update"] = Num(now)
        /\ call.outcome = "created" =>
              db_entries[call.pos]["first_seen"]
                  = db_entries[call.pos]["last_update"]

\* C4 (as claimed): every entry held in the store has exactly the canonical
\* field set, so that _check_entry passes for it.
C4_CanonicalSchema ==
    \A i \in 1..Len(db_entries) : _check_entry(db_entries[i])

\* C5 (as claimed): for every index key f and every entry e with e[f] not
\* None, query(f, e[f]) returns exactly that entry e.
C5_IndexIntegrity ==
    \A f \in index_keys : \A i \in 1..Len(db_entries) :
        db_entries[i][f] # None =>
            LET q == query(indices, db_entries, f, db_entries[i][f])
            IN  q.kind = "entry" /\ q.pos = i

\* C5 (amended): for every index key f and every entry e with e[f] not None,
\* query(f, e[f]) returns the last entry of the collection whose f is e[f];
\* it is e itself when no later entry holds the same value of f.
C5_IndexLastHolder ==
    \A f \in index_keys : \A i \in 1..Len(db_entries) :
        db_entries[i][f] # None =>
            LET q == query(indices, db_entries, f, db_entries[i][f])
            IN  /\ q.kind = "entry"
                /\ q.val = db_entries[q.pos]
                /\ q.val[f] = db_entries[i][f]
                /\ q.pos >= i
                /\ \A j \in (q.pos + 1)..Len(db_entries) :
                       db_entries[j][f] # db_entries[i][f]

C5_Witness ==
    /\ Upserted
    /\ \E f \in index_keys : \E i, j \in 1..Len(db_entries) :
        /\ i < j
        /\ db_entries[i][f] # None
        /\ db_entries[i][f] = db_entries[j][f]
        /\ query(indices, db_entries, f, db_entries[i][f]).pos = j

\* C6 (as claimed): storing the database D to a path and loading that path
\* into a new store gives entries and metadata equal to those of D.
C6_RoundTrip ==
    (call.op = "load" /\ call.after_store) =>
        /\ db_entries = call.pre.db_entries
        /\ db_meta = call.pre.db_meta

\* C7: an identical candidate applied twice in a row to the same identity (a
\* value of the id field that is not None) leaves, after the second
\* application, the number of entries and every field of the stored entry
\* other than the update timestamp as they were after the first.
C7_UpsertIdempotent ==
    (Upserted /\ call.repeat /\ call.entry[call.id_field] # None) =>
        /\ call.outcome = "updated"
        /\ Len(db_entries) = Len(call.pre.db_entries)
        /\ \A k \in Canonical \ {"last_update"} :
               db_entries[call.pos][k] = call.pre.db_entries[call.pos][k]
        /\ \A i \in 1..Len(db_entries) :
               i # call.pos => db_entries[i] = call.pre.db_entries[i]

C7_Witness ==
    /\ Upserted /\ call.repeat
    /\ call.entry[call.id_field] # None
    /\ call.entry["domain_uuid"] # None
    /\ Len(db_entries) = 2

C9_ReturnsEntry ==
    Upserted =>
        /\ ret.kind = "entry"
        /\ ret.pos = call.pos
        /\ ret.val = db_entries[call.pos]
        /\ ret.val[call.id_field] = call.entry[call.id_field]

\* C10: an address returned by gen_ip is not in the exclude list, not a key
\* of the index of its family, and neither the network nor the broadcast
\* address of the subnet.
C10_AllocationSafety ==
    (call.op = "gen_ip" /\ ret.kind = "str") =>
        /\ ret.val \notin call.exclude
        /\ ret.val \notin DOMAIN indices[call.ipvkey]
        /\ ret.val # str_address(call.net.version, call.net.network_address)
        /\ ret.val # str_address(call.net.version, broadcast_address(call.net))

C10_Witness ==
    /\ call.op = "gen_ip" /\ ret.kind = "str"
    /\ \E a \in call.exclude :
          /\ a[2][2] = call.net.version
          /\ a[2][3] > call.net.network_address
          /\ a[2][3] < broadcast_address(call.net)
    /\ \E a \in DOMAIN indices[call.ipvkey] :
          /\ a[2][3] > call.net.network_address
          /\ a[2][3] < broadcast_address(call.net)

\* C11: when every address written into mds_ipv4 or mds_ipv6 by
\* add_or_update_entry is the one gen_ip has just returned on the store as it
\* is, no two entries of the store hold the same address in the same family
C11_CollisionFree ==
    \A i \in DOMAIN db_entries, j \in DOMAIN db_entries :
        \A f \in {"mds_ipv4", "mds_ipv6"} :
            (i # j /\ db_entries[i][f] # None) =>
                db_entries[i][f] # db_entries[j][f]

\* an allocated address has been written by an upsert into a store in which
\* another entry holds an address of the same family
C11_Witness ==
    /\ Upserted
    /\ call.arg["mds_ipv4"] # None
    /\ \E i \in DOMAIN db_entries, j \in DOMAIN db_entries :
          /\ i # j
          /\ db_entries[i]["mds_ipv4"] = call.arg["mds_ipv4"]
          /\ db_entries[j]["mds_ipv4"] # None
          /\ db_entries[j]["mds_ipv4"] # call.arg["mds_ipv4"]

\* C12 (as claimed): gen_ip finishes within as many iterations of its loop as
\* the subnet has addresses: while the loop goes on, fewer tries have been
\* counted than the subnet has addresses
C12_BoundedBySubnet ==
    (/\ gen.pc = "while"
     /\ Cardinality(gen.allocated_map) < gen.net.num_addresses)
        => gen.tries < gen.net.num_addresses

\* C12 (amended): an iteration after which the loop goes on has drawn an
\* address of allocated_map, counts one try and leaves allocated_map as it
\* was; the iteration that ends the loop returns an address outside it; and
\* while the loop runs some address of the subnet is outside it
C12_RetryKeepsMap ==
    [][gen.pc = "while" =>
        /\ (gen'.pc = "while" =>
              /\ gen'.allocated_map = gen.allocated_map
              /\ gen'.tries = gen.tries + 1
              /\ str_address(gen.net.version,
                             gen.net.network_address + call'.offset[2])
                   \in gen.allocated_map)
        /\ (gen'.pc = "idle" /\ ret'.kind = "str" =>
              ret'.val \in subnet_addresses(gen.net) \ gen.allocated_map)
        /\ (Cardinality(gen.allocated_map) < gen.net.num_addresses =>
              subnet_addresses(gen.net) \ gen.allocated_map # {})]_vars

\* the loop has gone round more often than the subnet has addresses
C12_Witness ==
    /\ gen.pc = "while"
    /\ gen.tries > gen.net.num_addresses
    /\ gen.net.num_addresses >= 4

\* C13: when every address of the subnet is in the index of its family, in
\* the exclude list or the network or broadcast address, gen_ip runs no
\* iteration of its loop and returns None
C13_Exhaustion ==
    (call.op = "gen_ip" /\ subnet_addresses(call.net) \subseteq unavailable(call))
        => /\ gen.pc = "while" =>
                /\ gen.tries = 0
                /\ ~(Cardinality(gen.allocated_map) < gen.net.num_addresses)
           /\ gen.pc = "idle" => ret = [kind |-> "None"]

\* gen_ip has returned None on a subnet of four addresses, all taken
C13_Witness ==
    /\ call.op = "gen_ip"
    /\ call.net.num_addresses >= 4
    /\ subnet_addresses(call.net) \subseteq unavailable(call)
    /\ DOMAIN indices[call.ipvkey] \cap subnet_addresses(call.net) # {}
    /\ gen.pc = "idle"
    /\ ret = [kind |-> "None"]

\* C14: a call of gen_ip with a seed, made after a call with the same seed,
\* network and exclude list on the same store, draws the offsets that call
\* drew, in the same order, and returns what it returned
C14_Deterministic ==
    (call.op = "gen_ip" /\ call.seed # None /\ call.prev.kind = "run")
        => /\ Len(call.draws) <= Len(call.prev.draws)
           /\ call.draws = SubSeq(call.prev.draws, 1, Len(call.draws))
           /\ gen.pc = "idle" =>
                (call.draws = call.prev.draws /\ ret = call.prev.ret)

\* the second of two seeded runs has returned an address after a retry
C14_Witness ==
    /\ call.op = "gen_ip" /\ call.seed # None /\ call.prev.kind = "run"
    /\ gen.pc = "idle"
    /\ ret.kind = "str"
    /\ Len(call.draws) >= 2

\* C15: when randrange has returned k and network_address + k is not taken,
\* gen_ip returns at once, and what it returns is the text of
\* network_address + k, an address of the subnet (10.122.0.0 + 1500 is
\* 10.122.5.220 and the last groups of 2001:db8:: + 1500000 are 16:e360)
C15_ResultIsBasePlusOffset ==
    /\ (call.op = "gen_ip" /\ call.offset # None) =>
          LET address == call.net.network_address + call.offset[2]
              text == str_address(call.net.version, address)
          IN  /\ text \notin unavailable(call) =>
                    (gen.pc = "idle" /\ ret = [kind |-> "str", val |-> text])
              /\ (gen.pc = "idle" /\ ret.kind = "str") =>
                    /\ ret.val = text
                    /\ call.net.network_address <= address
                    /\ address <= broadcast_address(call.net)
    /\ ipv4_text(ipv4_number(10, 122, 0, 0) + 1500) = <<10, 122, 5, 220>>
    /\ ipv6_low_groups(1500000) = <<22, 58208>>

\* gen_ip has returned the address at an offset inside the subnet, after a
\* draw that was taken
C15_Witness ==
    /\ call.op = "gen_ip" /\ gen.pc = "idle" /\ ret.kind = "str"
    /\ call.offset # None /\ call.offset[2] > 1
    /\ call.net.network_address > 0
    /\ ret.val = str_address(call.net.version,
                             call.net.network_address + call.offset[2])

\* C16: with one writer, whatever step of store has been taken and whether or
\* not the call failed or stopped, the file at the target is a whole
\* document: during the call and after a failed one it is what it was when
\* the call began, after a call that went through it is the new text
C16_StoreAtomic ==
    /\ \A p \in {DbPath, AltPath} : fs[p] # Partial
    /\ sto.pc # "idle" => fs[sto.target] = sto.before
    /\ (call.op = "store" /\ sto.pc = "idle" /\ call.outcome = "OSError") =>
          fs[call.target[2]] = call.before
    /\ (call.op = "store" /\ sto.pc = "idle" /\ call.outcome = "ok") =>
          fs[call.target[2]] = call.dbtext

\* a store has failed or stopped after it began to write, over a target that
\* held an older state of the database
C16_Witness ==
    /\ call.op = "store" /\ sto.pc = "idle" /\ call.outcome = "OSError"
    /\ call.before # Absent
    /\ call.before # call.dbtext
    /\ fs[tmpfile(call.target[2])] = Partial

\* C17: with two processes that store to one path, the file at the path is
\* at every moment the whole text of one writer, and no store ends in an
\* exception
C17_NoTornFile ==
    /\ fs[DbPath] # Partial
    /\ ~(call.op = "store" /\ call.outcome = "FileNotFoundError")

C20_LegacyMigration ==
    (/\ call.op = "load"
     /\ call.outcome = "ok"
     /\ file_at(fs, call.path) # Absent
     /\ file_at(fs, call.path)[1] = "list"
     /\ \A i \in DOMAIN file_at(fs, call.path)[2] :
            _check_entry(file_at(fs, call.path)[2][i]))
        => /\ db_entries = file_at(fs, call.path)[2]
           /\ db_meta = new_metadata(EmptyLocations)

\* the entries of a file that the constructor accepts
raw_entries(content) ==
    IF content[1] = "list" THEN content[2] ELSE content[2]["entries"]

Loaded ==
    /\ call.op = "load"
    /\ call.outcome = "ok"
    /\ file_at(fs, call.path) # Absent

\* C21: after a constructor call on a file of entries, the instance has as
\* many entries as the file; an entry whose keys are the canonical ones is
\* as in the file, and any other is replaced by an entry with exactly the
\* canonical keys, the file's value for each key the file's entry has and
\* the default for each it lacks; no field set makes the call raise
C21_SelfHealingLoad ==
    (/\ call.op = "load"
     /\ file_at(fs, call.path) # Absent
     /\ \/ file_at(fs, call.path)[1] = "list"
        \/ /\ file_at(fs, call.path)[1] = "dict"
           /\ {"metadata", "entries"} \subseteq DOMAIN file_at(fs, call.path)[2])
        => LET raw == raw_entries(file_at(fs, call.path))
           IN  /\ call.outcome = "ok"
               /\ Len(db_entries) = Len(raw)
               /\ \A i \in DOMAIN raw :
                    IF DOMAIN raw[i] = Canonical
                    THEN db_entries[i] = raw[i]
                    ELSE /\ DOMAIN db_entries[i] = Canonical
                         /\ \A k \in Canonical :
                              db_entries[i][k] =
                                 IF k \in DOMAIN raw[i] THEN raw[i][k]
                                 ELSE default_entry[k]

\* a file that holds an entry of an older schema next to a current one has
\* been loaded
C21_Witness ==
    /\ Loaded
    /\ LET raw == raw_entries(file_at(fs, call.path))
       IN  /\ Len(raw) = 2
           /\ DOMAIN raw[1] # Canonical
           /\ DOMAIN raw[1] \ Canonical # {}
           /\ Canonical \ DOMAIN raw[1] # {}
           /\ db_entries[1] # raw[1]
           /\ db_entries[2] = raw[2]

\* C22: after add_or_update_location(name, location) the location kept under
\* name has last_seen at the time of the call, later than the last_seen it
\* had; when the name was known it has the candidate's value in every field
\* in which the candidate is not None, first_seen apart, and the first_seen
\* it had
C22_LocationUpsert ==
    call.op = "add_or_update_location" =>
        LET kept == db_meta["locations"][call.name]
        IN  /\ kept["last_seen"] = Num(now)
            /\ call.known =>
                 LET old == call.pre.db_meta["locations"][call.name]
                 IN  /\ kept["first_seen"] = old["first_seen"]
                     /\ kept["last_seen"][2] > old["last_seen"][2]
                     /\ \A k \in DOMAIN call.location \ {"first_seen", "last_seen"} :
                          call.location[k] # None => kept[k] = call.location[k]

\* C23: add_or_update_location with a location whose keys are not exactly
\* hostname, version, first_seen and last_seen raises ValueError and leaves
\* the metadata as it was
C23_LocationValidation ==
    (/\ call.op = "add_or_update_location"
     /\ DOMAIN call.location # DOMAIN new_location(None, None))
        => /\ ret.kind = "ValueError"
           /\ db_meta = call.pre.db_meta

\* C24: query(key, needle) changes nothing; it raises ValueError when key is
\* none of the five index keys, returns an entry whose key holds needle when
\* an entry holds it, and returns None when no entry does or needle is None
C24_QuerySemantics ==
    call.op = "query" =>
        /\ PreState = call.pre
        /\ fs = call.pre_fs
        /\ IF call.key \notin index_keys
           THEN ret.kind = "ValueError"
           ELSE IF /\ call.needle # None
                   /\ \E i \in DOMAIN db_entries :
                        db_entries[i][call.key] = call.needle
           THEN /\ ret.kind = "entry"
                /\ ret.val[call.key] = call.needle
                /\ \E i \in DOMAIN db_entries : db_entries[i] = ret.val
           ELSE ret.kind = "None"

\* an address that one of two entries holds has been queried and found
C24_Witness ==
    /\ call.op = "query"
    /\ call.key = "mds_ipv4"
    /\ ret.kind = "entry"
    /\ Len(db_entries) >= 2
    /\ ret.val[call.key] = call.needle

C26_TransientStore ==
    (call.op = "store" /\ dbfile = None) =>
        /\ PreState = call.pre
        /\ IF call.path = None
           THEN ~call.wrote /\ fs = call.pre_fs
           ELSE /\ call.wrote
                /\ fs[call.path[2]] = json_dumps(new_db(db_meta, db_entries))
                /\ \A p \in Paths \ {call.path[2]} : fs[p] = call.pre_fs[p]

\* an instance without a path that holds an entry and a location has been
\* stored to a path
C26_Witness ==
    /\ call.op = "store" /\ dbfile = None
    /\ call.path # None
    /\ db_entries # <<>>
    /\ db_meta["locations"] # EmptyLocations
    /\ call.pre_fs[call.path[2]] = Absent
    /\ fs[call.path[2]] # Absent

\* C27: an upsert that went through with an id value that was no key of the
\* index of id_field has appended one entry and left the others as they
\* were; one with an id value that was a key has left the number of entries
\* as it was and changed no entry but the one the index gave for the value
C27_TouchesOneEntry ==
    Upserted =>
        LET before == call.pre.db_entries
        IN  IF call.entry[call.id_field] \notin
                  DOMAIN call.pre.indices[call.id_field]
            THEN /\ call.outcome = "created"
                 /\ Len(db_entries) = Len(before) + 1
                 /\ \A i \in DOMAIN before : db_entries[i] = before[i]
            ELSE /\ call.outcome = "updated"
                 /\ Len(db_entries) = Len(before)
                 /\ call.pos = call.pre.indices[call.id_field][call.entry[call.id_field]]
                 /\ \A i \in DOMAIN before :
                      i # call.pos => db_entries[i] = before[i]

\* an upsert has changed the later of two entries that hold the same id
\* value, and the earlier one is as it was
C27_Witness ==
    /\ Merged
    /\ db_entries[call.pos] # call.pre.db_entries[call.pos]
    /\ \E i \in DOMAIN db_entries :
         /\ i # call.pos
         /\ db_entries[i][call.id_field] = call.entry[call.id_field]
         /\ db_entries[i] = call.pre.db_entries[i]

\* C28: in a store that began empty and was upserted into under one id_field
\* with id values that are set, no two entries hold the same value of that
\* field, the number of entries is the number of values held, and an upsert
\* leaves the values held as those held before plus the one upserted
C28_IdentityUnique ==
    LET f == call.id_field
        held(entries) == {entries[i][f] : i \in DOMAIN entries}
    IN  /\ \A i, j \in DOMAIN db_entries :
             db_entries[i][f] = db_entries[j][f] => i = j
        /\ Len(db_entries) = Cardinality(held(db_entries))
        /\ None \notin held(db_entries)
        /\ Upserted =>
             held(db_entries) =
                 held(call.pre.db_entries) \cup {call.entry[f]}

\* two values are held by two entries, and the last upsert carried a value
\* that was held already
C28_Witness ==
    /\ Merged
    /\ Len(db_entries) = 2
    /\ db_entries[1][call.id_field] # db_entries[2][call.id_field]
    /\ call.pos = 1

\* C29: gen_ip returns None only when every address of the subnet is in the
\* index of its family, in the exclude list, or the network or broadcast
\* address, whatever addresses outside the subnet the index and the exclude
\* list hold
C29_AllocationComplete ==
    (call.op = "gen_ip" /\ gen.pc = "idle" /\ ret = [kind |-> "None"])
        => subnet_addresses(call.net) \subseteq unavailable(call)

\* C30: an instance constructed with no path, on a path with no file or on
\* a file that holds a bare list starts with an empty locations map, whatever
\* locations were added to instances constructed earlier in the process
C30_InstancesIsolated ==
    (/\ call.op = "load"
     /\ call.outcome = "ok"
     /\ \/ call.path = None
        \/ file_at(fs, call.path) = Absent
        \/ file_at(fs, call.path)[1] = "list")
        => db_meta["locations"] = EmptyLocations
====
